---- MODULE Spec2Model ----
(***************************************************************************)
(* The application shell of src/src/App.tsx: the four pieces of React      *)
(* state, the update queues behind their setters, the four passive         *)
(* effects (load, two saves, study-time interval), the event handlers and  *)
(* localStorage.                                                           *)
(*                                                                         *)
(* React semantics used (React 18 concurrent root; AnimatePresence         *)
(* mode="wait" at App.tsx:118 needs framer-motion 7+, which needs React    *)
(* 18): a setter call appends an update to the hook's queue; a render      *)
(* folds the queue over the committed value; the commit runs the cleanup   *)
(* of every effect whose dependency changed, then the effect bodies in     *)
(* declaration order. The effect bodies are separate steps of one          *)
(* synchronous flush: no handler or timer callback runs between them.      *)
(* An error thrown by an effect body unmounts the whole tree (there is no  *)
(* error boundary).                                                        *)
(***************************************************************************)
EXTENDS Naturals, Integers, Sequences, FiniteSets, TLC

VARIABLES
    currentScreen,   \* useState<ScreenType>, App.tsx:14
    selectedLevel,   \* useState<GrammarLevel | null>, App.tsx:15
    savedGrammar,    \* useState<GrammarPoint[]>, App.tsx:16
    studyStats,      \* useState({...}), App.tsx:17-21
    store,           \* localStorage, the two keys of App.tsx:25,30
    timers,          \* the intervals armed by setInterval and not yet cleared
    interval,        \* `interval` of the last run of the timer effect, App.tsx:47
    screenQ,         \* queued setCurrentScreen updates
    levelQ,          \* queued setSelectedLevel updates
    savedQ,          \* queued setSavedGrammar updates
    statsQ,          \* queued setStudyStats updates
    effects,         \* effect bodies of the current flush still to run
    sync,            \* an event handler has run and its render is due now
    crashed,         \* an effect threw: the tree is unmounted
    ticks            \* number of interval callbacks that have fired

vars == <<currentScreen, selectedLevel, savedGrammar, studyStats, store, timers,
          interval, screenQ, levelQ, savedQ, statsQ, effects, sync, crashed, ticks>>

(***************************************************************************)
(* Bounds of the model.                                                    *)
(***************************************************************************)
MaxRound == 2      \* largest `total` of one quiz or game round
MaxTotal == 3      \* rounds are recorded while quizStats.total stays within this
MaxTicks == 3      \* interval callbacks fired in one run
MaxPending == 1    \* interval callbacks queued before a render

(***************************************************************************)
(* Types.                                                                  *)
(***************************************************************************)
Screens == {"welcome", "entrance", "rooms", "notebook", "progress", "games"}

Levels == {"beginner", "intermediate", "advanced"}

NoLevel == "null"

\* GrammarPoint: an id and the rest of the record, which the shell never reads.
GrammarPoints ==
    { [id |-> "g1", body |-> "a"], [id |-> "g1", body |-> "b"], [id |-> "g2", body |-> "a"] }

Undefined == 0

DefaultStats ==
    [ quizStats |-> [correct |-> 0, total |-> 0, streak |-> 0, bestStreak |-> 0],
      studyTime |-> 0,
      grammarMastered |-> 0 ]

Max(a, b) == IF a >= b THEN a ELSE b

(***************************************************************************)
(* JSON. A text is a sequence of tokens: punctuation, quoted strings (one  *)
(* token each) and decimal digits. JSON.stringify writes the keys of an    *)
(* object in insertion order without white space; JSON.parse is modelled   *)
(* on the texts of that shape and throws on any other text of the model   *)
(* (the truncated texts below).                                            *)
(***************************************************************************)
DigitChars == <<"0", "1", "2", "3", "4", "5", "6", "7", "8", "9">>

IsDigit(tok) == \E d \in 1..10 : DigitChars[d] = tok

DigitValue(tok) == (CHOOSE d \in 1..10 : DigitChars[d] = tok) - 1

RECURSIVE NatToDigits(_)
NatToDigits(n) ==
    IF n < 10 THEN <<DigitChars[n + 1]>>
    ELSE NatToDigits(n \div 10) \o <<DigitChars[(n % 10) + 1]>>

RECURSIVE DigitsToNat(_)
DigitsToNat(ds) ==
    IF ds = <<>> THEN 0
    ELSE 10 * DigitsToNat(SubSeq(ds, 1, Len(ds) - 1)) + DigitValue(ds[Len(ds)])

\* first position at or after i that holds no digit
RECURSIVE ScanDigits(_, _)
ScanDigits(t, i) ==
    IF i <= Len(t) /\ IsDigit(t[i]) THEN ScanDigits(t, i + 1) ELSE i

\* a JSON number at position i: one or more digits, no leading zero
ParseNat(t, i) ==
    LET e == ScanDigits(t, i)
        ds == SubSeq(t, i, e - 1)
    IN  IF e > i /\ (Len(ds) = 1 \/ ds[1] /= "0")
        THEN [ok |-> TRUE, val |-> DigitsToNat(ds), next |-> e]
        ELSE [ok |-> FALSE, val |-> 0, next |-> i]

StringifyPoint(g) == <<"{", "id", ":", g.id, ",", "body", ":", g.body, "}">>

RECURSIVE StringifyPoints(_)
StringifyPoints(s) ==
    IF s = <<>> THEN <<>>
    ELSE IF Len(s) = 1 THEN StringifyPoint(s[1])
    ELSE StringifyPoint(s[1]) \o <<",">> \o StringifyPoints(Tail(s))

\* JSON.stringify(savedGrammar)
StringifySaved(s) == <<"[">> \o StringifyPoints(s) \o <<"]">>

\* JSON.stringify(studyStats)
StringifyStats(st) ==
    <<"{", "quizStats", ":", "{", "correct", ":">> \o NatToDigits(st.quizStats.correct)
    \o <<",", "total", ":">> \o NatToDigits(st.quizStats.total)
    \o <<",", "streak", ":">> \o NatToDigits(st.quizStats.streak)
    \o <<",", "bestStreak", ":">> \o NatToDigits(st.quizStats.bestStreak)
    \o <<"}", ",", "studyTime", ":">> \o NatToDigits(st.studyTime)
    \o <<",", "grammarMastered", ":">> \o NatToDigits(st.grammarMastered)
    \o <<"}">>

StringValues == {g.id : g \in GrammarPoints} \cup {g.body : g \in GrammarPoints}

PointAt(t, i) ==
    IF /\ i + 8 <= Len(t)
       /\ SubSeq(t, i, i + 2) = <<"{", "id", ":">>
       /\ t[i + 3] \in StringValues
       /\ SubSeq(t, i + 4, i + 6) = <<",", "body", ":">>
       /\ t[i + 7] \in StringValues
       /\ t[i + 8] = "}"
    THEN [ok |-> TRUE, value |-> <<[id |-> t[i + 3], body |-> t[i + 7]]>>]
    ELSE [ok |-> FALSE, value |-> <<>>]

RECURSIVE ParsePoints(_, _, _)
ParsePoints(t, i, acc) ==
    LET p == PointAt(t, i)
    IN  IF ~p.ok \/ i + 9 > Len(t) THEN [ok |-> FALSE, value |-> <<>>]
        ELSE IF t[i + 9] = "]" /\ i + 9 = Len(t) THEN [ok |-> TRUE, value |-> acc \o p.value]
        ELSE IF t[i + 9] = "," THEN ParsePoints(t, i + 10, acc \o p.value)
        ELSE [ok |-> FALSE, value |-> <<>>]

\* JSON.parse of a text holding an array of GrammarPoint; ok = FALSE: SyntaxError
ParseSaved(t) ==
    IF t = <<"[", "]">> THEN [ok |-> TRUE, value |-> <<>>]
    ELSE IF Len(t) >= 1 /\ t[1] = "[" THEN ParsePoints(t, 2, <<>>)
    ELSE [ok |-> FALSE, value |-> <<>>]

StatsTemplate ==
    <<"{", "quizStats", ":", "{", "correct", ":", "#", ",", "total", ":", "#", ",",
      "streak", ":", "#", ",", "bestStreak", ":", "#", "}", ",", "studyTime", ":", "#",
      ",", "grammarMastered", ":", "#", "}">>

RECURSIVE MatchTemplate(_, _, _, _)
MatchTemplate(t, i, tmpl, nums) ==
    IF tmpl = <<>> THEN [ok |-> i = Len(t) + 1, nums |-> nums]
    ELSE IF Head(tmpl) = "#"
    THEN LET n == ParseNat(t, i)
         IN  IF n.ok THEN MatchTemplate(t, n.next, Tail(tmpl), Append(nums, n.val))
             ELSE [ok |-> FALSE, nums |-> nums]
    ELSE IF i <= Len(t) /\ t[i] = Head(tmpl) THEN MatchTemplate(t, i + 1, Tail(tmpl), nums)
    ELSE [ok |-> FALSE, nums |-> nums]

\* JSON.parse of a text holding a StudyStats record; ok = FALSE: SyntaxError
ParseStats(t) ==
    LET m == MatchTemplate(t, 1, StatsTemplate, <<>>)
    IN  IF m.ok
        THEN [ok |-> TRUE,
              value |-> [quizStats |-> [correct |-> m.nums[1], total |-> m.nums[2],
                                        streak |-> m.nums[3], bestStreak |-> m.nums[4]],
                         studyTime |-> m.nums[5],
                         grammarMastered |-> m.nums[6]]]
        ELSE [ok |-> FALSE, value |-> DefaultStats]

(***************************************************************************)
(* localStorage: each key is absent (getItem gives null) or holds a text.  *)
(***************************************************************************)
Absent == [present |-> FALSE, text |-> <<>>]

Item(t) == [present |-> TRUE, text |-> t]

\* variant: the item is parsed without the `if`
TruthyAlways(item) == TRUE

\* `if (saved)`: null and the empty string are falsy
Truthy(item) == item.present /\ item.text /= <<>>

\* texts cut short by an interrupted or foreign write
MalformedSaved == <<"[", "{", "id", ":">>

MalformedStats == <<"{", "quizStats", ":">>

(***************************************************************************)
(* The updater functions passed to the setters.                            *)
(***************************************************************************)
\* variant: the new object is built without `...prev`
TickUpdaterNoSpread(prev) == [DefaultStats EXCEPT !.studyTime = prev.studyTime + 1]

\* prev => ({...prev, studyTime: prev.studyTime + 1})
TickUpdater(prev) == [prev EXCEPT !.studyTime = prev.studyTime + 1]

\* variant: correct and total added to the wrong fields
QuizUpdaterSwapped(prev, correct, total) ==
    [prev EXCEPT !.quizStats =
        [ correct    |-> prev.quizStats.correct + total,
          total      |-> prev.quizStats.total + correct,
          streak     |-> IF correct = total THEN prev.quizStats.streak + correct ELSE 0,
          bestStreak |-> Max(prev.quizStats.bestStreak, prev.quizStats.streak) ]]

\* variant: the new object is built without `...prev`
QuizUpdaterNoSpread(prev, correct, total) ==
    [DefaultStats EXCEPT !.quizStats =
        [ correct    |-> prev.quizStats.correct + correct,
          total      |-> prev.quizStats.total + total,
          streak     |-> IF correct = total THEN prev.quizStats.streak + correct ELSE 0,
          bestStreak |-> Max(prev.quizStats.bestStreak, prev.quizStats.streak) ]]

\* variant: bestStreak takes the maximum with the streak after the update
QuizUpdaterPostStreak(prev, correct, total) ==
    [prev EXCEPT !.quizStats =
        [ correct    |-> prev.quizStats.correct + correct,
          total      |-> prev.quizStats.total + total,
          streak     |-> IF correct = total THEN prev.quizStats.streak + correct ELSE 0,
          bestStreak |-> Max(prev.quizStats.bestStreak,
                             IF correct = total THEN prev.quizStats.streak + correct ELSE 0) ]]

\* variant: a perfect round adds one to the streak
QuizUpdaterStreakByOne(prev, correct, total) ==
    [prev EXCEPT !.quizStats =
        [ correct    |-> prev.quizStats.correct + correct,
          total      |-> prev.quizStats.total + total,
          streak     |-> IF correct = total THEN prev.quizStats.streak + 1 ELSE 0,
          bestStreak |-> Max(prev.quizStats.bestStreak, prev.quizStats.streak) ]]

\* prev => ({...prev, quizStats: {...}}) of handleQuizComplete
QuizUpdater(prev, correct, total) ==
    [prev EXCEPT !.quizStats =
        [ correct    |-> prev.quizStats.correct + correct,
          total      |-> prev.quizStats.total + total,
          streak     |-> IF correct = total THEN prev.quizStats.streak + correct ELSE 0,
          bestStreak |-> Max(prev.quizStats.bestStreak, prev.quizStats.streak) ]]

\* variant: prev.find(g => g === grammar), the whole record compared
ExistsSameObject(prev, grammar) == \E i \in 1..Len(prev) : prev[i] = grammar

\* prev.find(g => g.id === grammar.id)
Exists(prev, grammar) == \E i \in 1..Len(prev) : prev[i].id = grammar.id

\* variant: an existing entry is replaced by the new record
SaveUpdaterReplace(prev, grammar) ==
    IF ~(\E i \in 1..Len(prev) : prev[i].id = grammar.id) THEN Append(prev, grammar)
    ELSE [i \in 1..Len(prev) |-> IF prev[i].id = grammar.id THEN grammar ELSE prev[i]]

\* variant: the new point goes to the front of the list
SaveUpdaterPrepend(prev, grammar) ==
    IF ~(\E i \in 1..Len(prev) : prev[i].id = grammar.id) THEN <<grammar>> \o prev ELSE prev

\* the updater of handleSaveGrammar
SaveUpdater(prev, grammar) ==
    IF ~Exists(prev, grammar) THEN Append(prev, grammar) ELSE prev

(***************************************************************************)
(* Update queues. An update of studyStats is a value (from the load        *)
(* effect), a tick or a quiz result; an update of savedGrammar is a value  *)
(* or a save.                                                              *)
(***************************************************************************)
NoPoint == [id |-> "", body |-> ""]

SetStats(v) == [op |-> "set", correct |-> 0, total |-> 0, value |-> v]

TickUpdate == [op |-> "tick", correct |-> 0, total |-> 0, value |-> DefaultStats]

QuizUpdate(c, t) == [op |-> "quiz", correct |-> c, total |-> t, value |-> DefaultStats]

SetSaved(v) == [op |-> "set", grammar |-> NoPoint, value |-> v]

SaveUpdate(g) == [op |-> "save", grammar |-> g, value |-> <<>>]

ApplyStatsUpdate(u, prev) ==
    CASE u.op = "set"  -> u.value
      [] u.op = "tick" -> TickUpdater(prev)
      [] u.op = "quiz" -> QuizUpdater(prev, u.correct, u.total)

ApplySavedUpdate(u, prev) ==
    IF u.op = "set" THEN u.value ELSE SaveUpdater(prev, u.grammar)

\* the render folds the queue over the committed value, oldest update first
RECURSIVE ReduceStats(_, _)
ReduceStats(q, prev) ==
    IF q = <<>> THEN prev ELSE ReduceStats(Tail(q), ApplyStatsUpdate(Head(q), prev))

RECURSIVE ReduceSaved(_, _)
ReduceSaved(q, prev) ==
    IF q = <<>> THEN prev ELSE ReduceSaved(Tail(q), ApplySavedUpdate(Head(q), prev))

\* Object.is(next, prev) is false: a parsed value and an appended array are new
\* objects, the `return prev` of handleSaveGrammar is the same object
RECURSIVE SavedIsNewObject(_, _)
SavedIsNewObject(q, prev) ==
    IF q = <<>> THEN FALSE
    ELSE \/ Head(q).op = "set"
         \/ ApplySavedUpdate(Head(q), prev) /= prev
         \/ SavedIsNewObject(Tail(q), ApplySavedUpdate(Head(q), prev))

\* every studyStats updater builds a new object
StatsIsNewObject(q) == q /= <<>>

LastOr(q, dflt) == IF q = <<>> THEN dflt ELSE q[Len(q)]

(***************************************************************************)
(* The effects.                                                            *)
(***************************************************************************)
\* localStorage.setItem('korean-grammar-saved', JSON.stringify(savedGrammar))
PersistSaved(st, saved) == [st EXCEPT !.saved = Item(StringifySaved(saved))]

\* localStorage.setItem('korean-grammar-stats', JSON.stringify(studyStats))
PersistStats(st, stats) == [st EXCEPT !.stats = Item(StringifyStats(stats))]

\* variant: the interval is armed on every screen
ShouldArmAlways(screen) == TRUE

\* if (currentScreen === 'rooms')
ShouldArm(screen) == screen = "rooms"

\* setInterval returns a handle no armed interval has
NewTimerId(ts) == IF ts = {} THEN 1 ELSE (CHOOSE m \in ts : \A x \in ts : x <= m) + 1

\* variant: the cleanup clears nothing
ClearIntervalKeeps(ts, id) == ts

\* clearInterval(interval); clearing undefined does nothing
ClearInterval(ts, id) == ts \ {id}

\* the effects of the first commit, in declaration order
MountEffects == <<"load", "saveSaved", "saveStats", "timer">>

\* variant: the studyStats save effect has an empty dependency array
ChangedEffectsSavedOnly(savedNew, statsNew, screenNew) ==
    (IF savedNew THEN <<"saveSaved">> ELSE <<>>)
    \o (IF screenNew THEN <<"timer">> ELSE <<>>)

\* the effects whose dependency array changed, in declaration order
ChangedEffects(savedNew, statsNew, screenNew) ==
    (IF savedNew THEN <<"saveSaved">> ELSE <<>>)
    \o (IF statsNew THEN <<"saveStats">> ELSE <<>>)
    \o (IF screenNew THEN <<"timer">> ELSE <<>>)

Flushing(e) == ~crashed /\ effects /= <<>> /\ Head(effects) = e

\* the load effect threw: React unmounts the tree, the updates queued so far are
\* dropped and no later effect of the flush runs
Crash ==
    /\ crashed' = TRUE
    /\ effects' = <<>>
    /\ savedQ' = <<>>
    /\ statsQ' = <<>>
    /\ UNCHANGED <<currentScreen, selectedLevel, savedGrammar, studyStats, store, timers,
                   interval, screenQ, levelQ, sync, ticks>>

\* JSON.parse throws in the load effect: a truthy item that is no JSON text
LoadThrows(st) ==
    \/ Truthy(st.saved) /\ ~ParseSaved(st.saved.text).ok
    \/ Truthy(st.stats) /\ ~ParseStats(st.stats.text).ok

\* variant: the saved list is read from the key of the stats
LoadedSavedQWrongKey(st, q) ==
    IF Truthy(st.stats) THEN Append(q, SetSaved(ParseSaved(st.stats.text).value)) ELSE q

\* if (saved) setSavedGrammar(JSON.parse(saved))
LoadedSavedQ(st, q) ==
    IF Truthy(st.saved) THEN Append(q, SetSaved(ParseSaved(st.saved.text).value)) ELSE q

\* if (stats) setStudyStats(JSON.parse(stats))
LoadedStatsQ(st, q) ==
    IF Truthy(st.stats) THEN Append(q, SetStats(ParseStats(st.stats.text).value)) ELSE q

\* load effect, App.tsx:24-34
RunLoad ==
    /\ Flushing("load")
    /\ IF LoadThrows(store)
       THEN Crash
       ELSE /\ savedQ' = LoadedSavedQ(store, savedQ)
            /\ statsQ' = LoadedStatsQ(store, statsQ)
            /\ effects' = Tail(effects)
            /\ UNCHANGED <<currentScreen, selectedLevel, savedGrammar, studyStats, store,
                           timers, interval, screenQ, levelQ, sync, crashed, ticks>>

\* save effect of savedGrammar, App.tsx:37-39
RunSaveSaved ==
    /\ Flushing("saveSaved")
    /\ store' = PersistSaved(store, savedGrammar)
    /\ effects' = Tail(effects)
    /\ UNCHANGED <<currentScreen, selectedLevel, savedGrammar, studyStats, timers, interval,
                   screenQ, levelQ, savedQ, statsQ, sync, crashed, ticks>>

\* save effect of studyStats, App.tsx:41-43
RunSaveStats ==
    /\ Flushing("saveStats")
    /\ store' = PersistStats(store, studyStats)
    /\ effects' = Tail(effects)
    /\ UNCHANGED <<currentScreen, selectedLevel, savedGrammar, studyStats, timers, interval,
                   screenQ, levelQ, savedQ, statsQ, sync, crashed, ticks>>

\* body of the study time tracker effect, App.tsx:46-55
RunTimer ==
    /\ Flushing("timer")
    /\ IF ShouldArm(currentScreen)
       THEN /\ interval' = NewTimerId(timers)
            /\ timers' = timers \cup {NewTimerId(timers)}
       ELSE /\ interval' = Undefined
            /\ timers' = timers
    /\ effects' = Tail(effects)
    /\ UNCHANGED <<currentScreen, selectedLevel, savedGrammar, studyStats, store,
                   screenQ, levelQ, savedQ, statsQ, sync, crashed, ticks>>

(***************************************************************************)
(* Render and commit: the queues are folded into the state; the cleanup of *)
(* the timer effect (App.tsx:56) runs when currentScreen changed; the      *)
(* bodies of the effects whose dependency changed are scheduled.           *)
(***************************************************************************)
Render ==
    /\ ~crashed
    /\ effects = <<>>
    /\ screenQ /= <<>> \/ levelQ /= <<>> \/ savedQ /= <<>> \/ statsQ /= <<>>
    /\ LET screen == LastOr(screenQ, currentScreen)
           screenNew == screen /= currentScreen
       IN  /\ currentScreen' = screen
           /\ selectedLevel' = LastOr(levelQ, selectedLevel)
           /\ savedGrammar' = ReduceSaved(savedQ, savedGrammar)
           /\ studyStats' = ReduceStats(statsQ, studyStats)
           /\ timers' = IF screenNew THEN ClearInterval(timers, interval) ELSE timers
           /\ effects' = ChangedEffects(SavedIsNewObject(savedQ, savedGrammar),
                                        StatsIsNewObject(statsQ), screenNew)
    /\ screenQ' = <<>>
    /\ levelQ' = <<>>
    /\ savedQ' = <<>>
    /\ statsQ' = <<>>
    /\ sync' = FALSE
    /\ UNCHANGED <<store, interval, crashed, ticks>>

(***************************************************************************)
(* What the render returns: the children of AnimatePresence, App.tsx:118-  *)
(* 212, each a conditional on currentScreen (and, for the rooms leaf, on   *)
(* selectedLevel).                                                         *)
(***************************************************************************)
\* variant: the rooms leaf is not guarded by selectedLevel
MountedLeavesNoGuard(screen, level) ==
    {leaf \in Screens : screen = leaf}

MountedLeaves(screen, level) ==
    {leaf \in Screens :
        \/ leaf = "welcome"  /\ screen = "welcome"
        \/ leaf = "entrance" /\ screen = "entrance"
        \/ leaf = "rooms"    /\ screen = "rooms" /\ level /= NoLevel
        \/ leaf = "notebook" /\ screen = "notebook"
        \/ leaf = "progress" /\ screen = "progress"
        \/ leaf = "games"    /\ screen = "games"}

(***************************************************************************)
(* Event handlers. A handler runs in a discrete event: it queues its       *)
(* updates and the render follows before any other event.                  *)
(***************************************************************************)
Idle == ~crashed /\ effects = <<>> /\ ~sync

\* variant: leaving a screen also forgets the level
HandleScreenChangeClearsLevel(screen) ==
    /\ ~crashed /\ effects = <<>> /\ ~sync
    /\ screenQ' = Append(screenQ, screen)
    /\ levelQ' = Append(levelQ, NoLevel)
    /\ sync' = TRUE
    /\ UNCHANGED <<currentScreen, selectedLevel, savedGrammar, studyStats, store, timers,
                   interval, savedQ, statsQ, effects, crashed, ticks>>

\* App.tsx:59-61
HandleScreenChange(screen) ==
    /\ Idle
    /\ screenQ' = Append(screenQ, screen)
    /\ sync' = TRUE
    /\ UNCHANGED <<currentScreen, selectedLevel, savedGrammar, studyStats, store, timers,
                   interval, levelQ, savedQ, statsQ, effects, crashed, ticks>>

\* App.tsx:63-66
HandleLevelSelect(level) ==
    /\ Idle
    /\ levelQ' = Append(levelQ, level)
    /\ screenQ' = Append(screenQ, "rooms")
    /\ sync' = TRUE
    /\ UNCHANGED <<currentScreen, selectedLevel, savedGrammar, studyStats, store, timers,
                   interval, savedQ, statsQ, effects, crashed, ticks>>

\* App.tsx:68-76
HandleSaveGrammar(grammar) ==
    /\ Idle
    /\ savedQ' = Append(savedQ, SaveUpdate(grammar))
    /\ sync' = TRUE
    /\ UNCHANGED <<currentScreen, selectedLevel, savedGrammar, studyStats, store, timers,
                   interval, screenQ, levelQ, statsQ, effects, crashed, ticks>>

\* App.tsx:78-88
HandleQuizComplete(correct, total) ==
    /\ Idle
    /\ ReduceStats(statsQ, studyStats).quizStats.total + total <= MaxTotal
    /\ statsQ' = Append(statsQ, QuizUpdate(correct, total))
    /\ sync' = TRUE
    /\ UNCHANGED <<currentScreen, selectedLevel, savedGrammar, studyStats, store, timers,
                   interval, screenQ, levelQ, savedQ, effects, crashed, ticks>>

\* App.tsx:90-92
HandleGameComplete(score, totalQuestions) == HandleQuizComplete(score, totalQuestions)

\* the interval callback, App.tsx:49-54: fires for an armed interval, between events
TimerTick ==
    /\ Idle
    /\ ticks < MaxTicks
    /\ Len(statsQ) < MaxPending
    /\ \E id \in timers :
          statsQ' = Append(statsQ, TickUpdate)
    /\ ticks' = ticks + 1
    /\ UNCHANGED <<currentScreen, selectedLevel, savedGrammar, studyStats, store, timers,
                   interval, screenQ, levelQ, savedQ, effects, sync, crashed>>

(***************************************************************************)
(* Start of the process: the first render is committed with the default    *)
(* state and its effects are due; localStorage holds what an earlier run   *)
(* or a foreign writer left there.                                         *)
(***************************************************************************)
StoredLists ==
    { <<>>,
      <<[id |-> "g1", body |-> "a"]>>,
      <<[id |-> "g2", body |-> "a"], [id |-> "g1", body |-> "b"]>> }

StoredStats ==
    { [ quizStats |-> [correct |-> 1, total |-> 2, streak |-> 0, bestStreak |-> 1],
        studyTime |-> 9,
        grammarMastered |-> 0 ] }

InitSavedItems ==
    {Absent, Item(<<>>), Item(MalformedSaved)} \cup {Item(StringifySaved(s)) : s \in StoredLists}

InitStatsItems ==
    {Absent, Item(MalformedStats)} \cup {Item(StringifyStats(t)) : t \in StoredStats}

Init ==
    /\ currentScreen = "welcome"
    /\ selectedLevel = NoLevel
    /\ savedGrammar = <<>>
    /\ studyStats = DefaultStats
    /\ store \in [saved : InitSavedItems, stats : InitStatsItems]
    /\ timers = {}
    /\ interval = Undefined
    /\ screenQ = <<>>
    /\ levelQ = <<>>
    /\ savedQ = <<>>
    /\ statsQ = <<>>
    /\ effects = MountEffects
    /\ sync = FALSE
    /\ crashed = FALSE
    /\ ticks = 0

Rounds == {r \in (0..MaxRound) \X (0..MaxRound) : r[1] <= r[2]}

Next ==
    \/ RunLoad
    \/ RunSaveSaved
    \/ RunSaveStats
    \/ RunTimer
    \/ Render
    \/ \E screen \in Screens : HandleScreenChange(screen)
    \/ \E level \in Levels : HandleLevelSelect(level)
    \/ \E grammar \in GrammarPoints : HandleSaveGrammar(grammar)
    \/ \E r \in Rounds : HandleQuizComplete(r[1], r[2])
    \/ \E r \in Rounds : HandleGameComplete(r[1], r[2])
    \/ TimerTick

Spec == Init /\ [][Next]_vars

(***************************************************************************)
(* The callbacks as the render wires them to the leaves, App.tsx:118-212:  *)
(* a leaf can call only the callbacks it was given, and only while the     *)
(* render returns it.                                                      *)
(***************************************************************************)
Mounted(leaf) == leaf \in MountedLeaves(currentScreen, selectedLevel)

\* variant: the welcome button opens the rooms
OnEnterMuseumToRooms == Mounted("welcome") /\ HandleScreenChange("rooms")

\* WelcomeScreen onEnterMuseum
OnEnterMuseum == Mounted("welcome") /\ HandleScreenChange("entrance")

\* MuseumEntrance onLevelSelect
OnLevelSelect(level) == Mounted("entrance") /\ HandleLevelSelect(level)

\* MuseumEntrance onOpenNotebook, onOpenGames, onOpenProgress, onBack
EntranceOpenNotebook == Mounted("entrance") /\ HandleScreenChange("notebook")

EntranceOpenGames == Mounted("entrance") /\ HandleScreenChange("games")

EntranceOpenProgress == Mounted("entrance") /\ HandleScreenChange("progress")

EntranceBack == Mounted("entrance") /\ HandleScreenChange("welcome")

\* GrammarRooms onBack, onSaveGrammar, onOpenNotebook
RoomsBack == Mounted("rooms") /\ HandleScreenChange("entrance")

RoomsSaveGrammar(grammar) == Mounted("rooms") /\ HandleSaveGrammar(grammar)

RoomsOpenNotebook == Mounted("rooms") /\ HandleScreenChange("notebook")

\* PersonalNotebook onBack
NotebookBack == Mounted("notebook") /\ HandleScreenChange("entrance")

\* the back button of the progress screen
ProgressBack == Mounted("progress") /\ HandleScreenChange("entrance")

\* the back button of the games screen
GamesBack == Mounted("games") /\ HandleScreenChange("entrance")

\* GrammarGame onGameComplete
OnGameComplete(score, totalQuestions) ==
    Mounted("games") /\ HandleGameComplete(score, totalQuestions)

NextWired ==
    \/ RunLoad
    \/ RunSaveSaved
    \/ RunSaveStats
    \/ RunTimer
    \/ Render
    \/ OnEnterMuseum
    \/ \E level \in Levels : OnLevelSelect(level)
    \/ EntranceOpenNotebook
    \/ EntranceOpenGames
    \/ EntranceOpenProgress
    \/ EntranceBack
    \/ RoomsBack
    \/ \E grammar \in GrammarPoints : RoomsSaveGrammar(grammar)
    \/ RoomsOpenNotebook
    \/ NotebookBack
    \/ ProgressBack
    \/ GamesBack
    \/ \E r \in Rounds : OnGameComplete(r[1], r[2])
    \/ TimerTick

SpecWired == Init /\ [][NextWired]_vars

(***************************************************************************)
(* Properties.                                                             *)
(***************************************************************************)
\* studyTime once every queued update is applied
PendingStudyTime == ReduceStats(statsQ, studyStats).studyTime

Range(q) == {q[i] : i \in 1..Len(q)}

\* C1: quizStats.bestStreak >= quizStats.streak in every reachable state.
\* Violated: handleQuizComplete takes the maximum with the streak from before the
\* call, so the first perfect round leaves bestStreak behind streak.
BestStreakAtLeastStreak ==
    studyStats.quizStats.bestStreak >= studyStats.quizStats.streak

\* C2: a malformed text under either key does not stop the application: the load
\* never unmounts the tree, and after the load the in-memory values are the defaults.
\* Violated: JSON.parse throws inside the load effect and nothing catches it.
MalformedLoadKeepsRunning ==
    /\ ~crashed
    /\ (store.saved = Item(MalformedSaved) /\ "load" \notin Range(effects))
          => ReduceSaved(savedQ, savedGrammar) = <<>>
    /\ (store.stats = Item(MalformedStats) /\ "load" \notin Range(effects))
          => ReduceStats(statsQ, studyStats) = DefaultStats

\* C3: at most one interval is armed, and none while currentScreen is not 'rooms'.
OneTimerOnlyOnRooms ==
    /\ Cardinality(timers) <= 1
    /\ timers /= {} => currentScreen = "rooms"

\* C3 witness: the interval fired on rooms and was cancelled on leaving.
TimerCancelledOnLeave ==
    /\ currentScreen = "entrance"
    /\ ticks >= 1
    /\ timers = {}
    /\ effects = <<>>

\* C4: after the load, studyTime (with the queued updates applied) grows by exactly
\* one per firing of the interval and by nothing else, and the interval fires only
\* while currentScreen is 'rooms'.
TickerGating ==
    [][ ~Flushing("load") =>
          /\ PendingStudyTime' = PendingStudyTime + (ticks' - ticks)
          /\ ticks' /= ticks => currentScreen = "rooms" ]_vars

\* C4 witness: nine seconds loaded, three ticks on rooms, then the notebook.
ThreeTicksThenAway ==
    /\ currentScreen = "notebook"
    /\ ticks = 3
    /\ studyStats.studyTime = 12
    /\ statsQ = <<>>

\* C5: savedGrammar never holds two entries with the same id.
NoDuplicateIds ==
    \A i, j \in 1..Len(savedGrammar) :
        i /= j => savedGrammar[i].id /= savedGrammar[j].id

\* C5 witness: a point with a saved id and another body was saved on a set of two.
SavedTwoThenDuplicate ==
    /\ Len(savedGrammar) = 2
    /\ savedGrammar[1] = [id |-> "g1", body |-> "a"]
    /\ savedQ = <<SaveUpdate([id |-> "g1", body |-> "b"])>>

\* C6: a render whose queued saves all name ids already in savedGrammar leaves
\* savedGrammar unchanged in length, content and order.
DuplicateSaveChangesNothing ==
    [][ ( /\ effects = <<>>
          /\ savedQ /= <<>>
          /\ savedQ' = <<>>
          /\ \A k \in 1..Len(savedQ) :
                /\ savedQ[k].op = "save"
                /\ \E i \in 1..Len(savedGrammar) : savedGrammar[i].id = savedQ[k].grammar.id )
        => savedGrammar' = savedGrammar ]_vars

\* C6 witness: the id of the only saved point is saved again with another body.
DuplicateSaveQueued ==
    /\ savedGrammar = <<[id |-> "g1", body |-> "b"]>>
    /\ savedQ = <<SaveUpdate([id |-> "g1", body |-> "a"])>>

\* C7: persisting the current savedGrammar and running the load and the render of
\* a fresh process against that store gives savedGrammar back, in the same order.
RoundTrip ==
    LET st == PersistSaved(store, savedGrammar)
    IN  /\ Truthy(st.saved) => ParseSaved(st.saved.text).ok
        /\ ReduceSaved(LoadedSavedQ(st, <<>>), <<>>) = savedGrammar

\* C7 witness: a list of two, loaded or saved, is in memory and in the store.
TwoPointsPersisted ==
    /\ savedGrammar = <<[id |-> "g2", body |-> "a"], [id |-> "g1", body |-> "b"]>>
    /\ store.saved = Item(StringifySaved(savedGrammar))
    /\ currentScreen = "welcome"
    /\ effects = <<>>

\* C8: unless its save effect is still due, each key holds the JSON text of the
\* current in-memory value.
StoreFollowsMemory ==
    ~crashed =>
        /\ "saveSaved" \notin Range(effects) => store.saved = Item(StringifySaved(savedGrammar))
        /\ "saveStats" \notin Range(effects) => store.stats = Item(StringifyStats(studyStats))

\* C8 witness: a save, a quiz result and a tick have all been written.
AllMutationsWritten ==
    /\ ~crashed
    /\ effects = <<>>
    /\ Len(savedGrammar) >= 1
    /\ studyStats.quizStats.total >= 1
    /\ ticks >= 1
    /\ studyStats.studyTime >= 1

\* C9: quizStats.correct <= quizStats.total, the rounds satisfying correct <= total.
CorrectAtMostTotal ==
    studyStats.quizStats.correct <= studyStats.quizStats.total

\* C9 witness: rounds with wrong answers and rounds without have been recorded.
MixedRoundsRecorded ==
    /\ studyStats.quizStats.correct = 2
    /\ studyStats.quizStats.total = 3
    /\ studyStats.quizStats.streak >= 1

\* C10: no step lowers studyTime.
StudyTimeNeverDecreases ==
    [][ studyStats'.studyTime >= studyStats.studyTime ]_vars

\* C10 witness: ticks, a quiz result, a save and navigations have all happened.
EveryOperationAfterTicks ==
    /\ studyStats.studyTime >= 2
    /\ studyStats.quizStats.total >= 1
    /\ Len(savedGrammar) >= 1
    /\ currentScreen = "progress"
    /\ selectedLevel /= NoLevel

\* C11: savedGrammar grows only by append: in every step the old sequence is a
\* prefix of the new one, so no entry is removed, replaced or moved.
SavedGrowsByAppend ==
    [][ /\ Len(savedGrammar') >= Len(savedGrammar)
        /\ SubSeq(savedGrammar', 1, Len(savedGrammar)) = savedGrammar ]_vars

\* C11 witness: a second point was saved after a loaded or saved first one, and a
\* third save of a known id is queued.
SecondPointAppended ==
    /\ Len(savedGrammar) = 2
    /\ savedGrammar[2] = [id |-> "g2", body |-> "a"]
    /\ savedQ = <<SaveUpdate([id |-> "g2", body |-> "a"])>>

DefaultLoad ==
    /\ store.saved = Absent =>
          /\ savedGrammar = <<>>
          /\ ReduceSaved(savedQ, savedGrammar) = <<>>
    /\ store.stats = Absent =>
          /\ studyStats = [quizStats |-> [correct |-> 0, total |-> 0, streak |-> 0, bestStreak |-> 0],
                           studyTime |-> 0, grammarMastered |-> 0]
          /\ ReduceStats(statsQ, studyStats) = studyStats
          /\ currentScreen = "welcome"
          /\ screenQ = <<>>
    /\ (store.saved = Absent /\ store.stats = Absent) => ~crashed

\* C13 witness: the load has run against an empty localStorage.
LoadedFromNothing ==
    /\ store.saved = Absent
    /\ store.stats = Absent
    /\ effects = <<"saveSaved", "saveStats", "timer">>

\* the queued quiz or game results
QueuedResults == {k \in 1..Len(statsQ) : statsQ[k].op = "quiz"}

\* a render that applies exactly one quiz or game result to the committed stats
\* (interval ticks may be queued with it)
RendersOneResult ==
    /\ ~crashed
    /\ effects = <<>>
    /\ Cardinality(QueuedResults) = 1
    /\ \A k \in 1..Len(statsQ) : statsQ[k].op /= "set"
    /\ statsQ' = <<>>

\* C14: a result sets bestStreak to the larger of the old bestStreak and the streak
\* from before the call, not the streak the call produces.
BestStreakFromOldStreak ==
    [][ RendersOneResult =>
          studyStats'.quizStats.bestStreak =
              IF studyStats.quizStats.streak > studyStats.quizStats.bestStreak
              THEN studyStats.quizStats.streak
              ELSE studyStats.quizStats.bestStreak ]_vars

\* C14 witness: two perfect rounds in a row (2 of 2, then 1 of 1) from all-zero
\* stats: the streak is their sum, bestStreak the streak after the first.
TwoPerfectRounds ==
    studyStats.quizStats = [correct |-> 3, total |-> 3, streak |-> 3, bestStreak |-> 2]

\* C15: a result with correct = total adds correct to the streak, any other result
\* sets the streak to 0.
StreakRule ==
    [][ RendersOneResult =>
          LET u == statsQ[CHOOSE k \in QueuedResults : TRUE]
          IN  studyStats'.quizStats.streak =
                  IF u.correct = u.total THEN studyStats.quizStats.streak + u.correct ELSE 0 ]_vars

\* C15 witness: a perfect round (2 of 2) and then an imperfect one (0 of 1).
PerfectThenImperfect ==
    studyStats.quizStats = [correct |-> 2, total |-> 3, streak |-> 0, bestStreak |-> 2]

\* C16: selectLevel queues the level and 'rooms' and nothing else; navigate queues
\* its target and nothing else; the render that follows gives selectedLevel and
\* currentScreen the queued values and leaves a value with no queued update alone;
\* selectedLevel changes only with a queued level, together with the move to 'rooms'.
NavigationFrame ==
    [][ /\ levelQ' /= levelQ /\ levelQ' /= <<>> =>
              /\ \E level \in Levels : levelQ' = Append(levelQ, level)
              /\ screenQ' = Append(screenQ, "rooms")
              /\ savedQ' = savedQ /\ statsQ' = statsQ
              /\ UNCHANGED <<currentScreen, selectedLevel, savedGrammar, studyStats, store>>
        /\ screenQ' /= screenQ /\ screenQ' /= <<>> /\ levelQ' = levelQ =>
              /\ \E target \in Screens : screenQ' = Append(screenQ, target)
              /\ savedQ' = savedQ /\ statsQ' = statsQ
              /\ UNCHANGED <<currentScreen, selectedLevel, savedGrammar, studyStats, store>>
        /\ (screenQ /= <<>> \/ levelQ /= <<>>) /\ screenQ' = <<>> /\ levelQ' = <<>> =>
              /\ currentScreen' = IF screenQ = <<>> THEN currentScreen ELSE screenQ[Len(screenQ)]
              /\ selectedLevel' = IF levelQ = <<>> THEN selectedLevel ELSE levelQ[Len(levelQ)]
              /\ savedQ = <<>> => savedGrammar' = savedGrammar
              /\ statsQ = <<>> => studyStats' = studyStats
        /\ selectedLevel' /= selectedLevel =>
              /\ levelQ /= <<>>
              /\ selectedLevel' \in Levels
              /\ currentScreen' = "rooms" ]_vars

\* C16 witness: a level was selected, points saved and time studied, and a later
\* navigation is queued from another screen with all of that still in place.
NavigatedWithLevelKept ==
    /\ currentScreen = "notebook"
    /\ selectedLevel = "advanced"
    /\ Len(savedGrammar) >= 1
    /\ studyStats.studyTime >= 1
    /\ screenQ = <<"entrance">>

\* C17: startup does not overwrite stored data with defaults: while a value the
\* load read is still queued for the re-render, its key still holds the text it was
\* read from.
\* Violated: the save effects of the first commit run after the load in the same
\* flush and write the default state, which the re-render's save effects then
\* replace by the loaded values.
StartupKeepsStore ==
    /\ \A k \in 1..Len(savedQ) :
          savedQ[k].op = "set" => store.saved = Item(StringifySaved(savedQ[k].value))
    /\ \A k \in 1..Len(statsQ) :
          statsQ[k].op = "set" => store.stats = Item(StringifyStats(statsQ[k].value))

\* C18: with only the callbacks the render wires to the leaves, currentScreen =
\* 'rooms' implies a level is selected, and a selected level never becomes absent.
RoomsHasLevel ==
    /\ [](currentScreen = "rooms" => selectedLevel \in Levels)
    /\ [][ (selectedLevel \in Levels) => (selectedLevel' \in Levels) ]_vars

\* C18 witness: back on the welcome screen after a visit to the rooms, the level
\* is still selected.
LevelKeptAfterRooms ==
    /\ currentScreen = "welcome"
    /\ selectedLevel \in Levels
    /\ Len(savedGrammar) >= 1
    /\ ticks >= 1

\* the queue with the newest update first
Reversed(q) == [i \in 1..Len(q) |-> q[Len(q) + 1 - i]]

\* C19: a render that applies queued ticks and at most one result, in whatever
\* order they were queued, raises studyTime by one per tick and updates quizStats by
\* the result alone; applying the same updates in the opposite order gives the same
\* stats; ticks alone leave quizStats unchanged, a result alone leaves studyTime
\* unchanged, and grammarMastered is never touched.
TickAndResultCommute ==
    [][ ( /\ ~crashed
          /\ effects = <<>>
          /\ statsQ /= <<>>
          /\ statsQ' = <<>>
          /\ \A k \in 1..Len(statsQ) : statsQ[k].op /= "set"
          /\ Cardinality(QueuedResults) <= 1 )
        => /\ studyStats'.studyTime =
                  studyStats.studyTime + Cardinality({k \in 1..Len(statsQ) : statsQ[k].op = "tick"})
           /\ studyStats'.grammarMastered = studyStats.grammarMastered
           /\ studyStats' = ReduceStats(Reversed(statsQ), studyStats)
           /\ QueuedResults = {} => studyStats'.quizStats = studyStats.quizStats
           /\ QueuedResults /= {} =>
                  LET u == statsQ[CHOOSE k \in QueuedResults : TRUE]
                  IN  studyStats'.quizStats =
                          QuizUpdater(studyStats, u.correct, u.total).quizStats ]_vars

\* C19 witness: a tick and a perfect round are queued together for one render, on
\* stats that already hold a streak and study time.
TickAndResultQueued ==
    /\ statsQ = <<TickUpdate, QuizUpdate(1, 1)>>
    /\ studyStats.quizStats.streak >= 1
    /\ studyStats.studyTime >= 1

====
